---- MODULE Spec2Model ----
(***************************************************************************)
(* Model of libpkg/fetch_libcurl.c: the libcurl based fetcher of pkg.      *)
(*                                                                         *)
(* One repository session (struct pkg_repo with its fetch_priv), one fetch *)
(* item, one remote resource.  curl_open and curl_cleanup are single       *)
(* steps.  curl_fetch is a sequence of steps (pc) because the transport    *)
(* calls back into the fetcher while curl_multi_perform runs: the request  *)
(* setup at the retry label, the callbacks of the running transfer, the    *)
(* completion message loop and the return.                                 *)
(*                                                                         *)
(* libcurl is modelled by its documented behaviour:                        *)
(*   - an easy handle stays attached to its multi handle until             *)
(*     curl_multi_remove_handle; curl_multi_add_handle of an attached      *)
(*     handle fails with CURLM_ADDED_ALREADY and starts nothing;           *)
(*   - curl_multi_info_read hands out each completion message once;        *)
(*   - CURLINFO_FILETIME_T is -1 unless CURLOPT_FILETIME was set;          *)
(*   - a transfer without a URL fails with CURLE_URL_MALFORMAT.            *)
(***************************************************************************)
EXTENDS Integers, Sequences, FiniteSets, TLC

\* ------------------------------------------------------------- bounds
MaxRetry == 3       \* largest FETCH_RETRY value tried
MaxMirrors == 3     \* longest SRV list dns_getsrvinfo returns
MaxHeaders == 3     \* header callback invocations per transfer
MaxTicks == 2       \* progress ticks counted per call
MaxChunks == 1      \* body chunks written per call
MaxOpens == 2       \* multi handles created per session

\* ---------------------------------------------------------- constants
NULL == 0
HTTP_OK == 200
HTTP_NOT_MODIFIED == 304
HTTP_NOT_FOUND == 404
HTTP_FOUND == 302
HTTP_SERVER_ERROR == 500
FILETIME_UNKNOWN == 0 - 1

ItemTimes == {0, 1, 2}          \* fi->mtime of a new item (0: unknown)
RemoteTimes == {1, 2}           \* modification time of the remote resource
MirrorTypes == {"NOMIRROR", "SRV", "HTTP"}
FinalCodes == {HTTP_OK, HTTP_NOT_MODIFIED, HTTP_NOT_FOUND, HTTP_SERVER_ERROR}
Codes == FinalCodes \cup {HTTP_FOUND}
Results == {"EPKG_OK", "EPKG_UPTODATE", "EPKG_FATAL"}

VARIABLES
    \* struct pkg_repo
    mirror_type,    \* repo->mirror_type
    srv,            \* repo->srv: number of records of the list, NULL when none
    urlOk,          \* whether repo->url parses (curl_url_set succeeds)
    fetch_priv,     \* repo->fetch_priv: id of the curl_repodata, NULL when none
    cr_url,         \* cr->url: "NULL", "EMPTY" (allocated, nothing set), "SET"
    opens,          \* multi handles created so far
    \* collaborators
    remoteMtime,    \* modification time of the remote resource
    dnsQueries,     \* calls of dns_getsrvinfo
    downgraded,     \* curl_open found no SRV record and set NOMIRROR
    \* struct fetch_item
    fi_mtime,       \* fi->mtime
    \* locals of the running curl_fetch
    pc,             \* "idle", "setup", "poll", "msgs", "crashed"
    retry,          \* retry
    retcode,        \* retcode
    still_running,  \* still_running
    srv_current,    \* srv_current: index in the list, NULL
    data,           \* struct curl_userdata: fh, started, response, size
    target,         \* what the easy handle is set to request
    timevalue,      \* CURLOPT_TIMEVALUE of the easy handle
    \* the multi handle and the easy handle
    attached,       \* the easy handle is in the multi handle
    xfer,           \* "none", "running", "done"
    msgq,           \* completion messages not yet read
    response_code,  \* CURLINFO_RESPONSE_CODE of the easy handle
    hdrs,           \* header callback invocations of the transfer
    \* events of the running call
    nBegin, nTick, nError,
    \* history of the running / last call
    hist,
    openHist

repoVars == <<mirror_type, srv, urlOk, fetch_priv, cr_url, opens, dnsQueries, downgraded>>
callVars == <<pc, retry, retcode, still_running, srv_current, data, target, timevalue>>
multiVars == <<attached, xfer, msgq, response_code, hdrs>>
eventVars == <<nBegin, nTick, nError>>
vars == <<repoVars, remoteMtime, fi_mtime, callVars, multiVars, eventVars, hist, openHist>>

\* what the easy handle requests: nothing ("none"), fi->url ("url"), the SRV
\* record idx ("mirror"), or what a read through a null cursor gave ("garbage")
Target(kind, idx) == [kind |-> kind, idx |-> idx]

NoData == [fh |-> "none", started |-> FALSE, response |-> 0, size |-> 0]
\* what is remembered of the running (or last) curl_fetch call
\*   ceiling    FETCH_RETRY as read at line 164
\*   mtime0     fi->mtime when the call started, mtimeEnd when it returned
\*   attempts   transfers started by curl_multi_add_handle
\*   setups     passes through the request setup at the retry label
\*   outcomes   response code and result of every finished transfer
\*   targets    what each setup made the easy handle request
\*   cursors    srv_current after each setup of a SRV session
\*   sinks      state of data.fh at each setup
\*   reAdds     curl_multi_add_handle calls on the attached easy handle
\*   hdr200     header callback invocations that saw status 200
\*   sameItem   the item is the one the last call returned
\*   roundTrip  the call got the item as the previous call left it, and that
\*              call returned EPKG_OK after a transfer that ended with 200
\*   mcError    the poll loop ended at line 222
\*   inFlight   the transfer was still running when the call returned
\*   result     the code the call returned, "none" before it returns
NoHist == [ceiling |-> 0, mtime0 |-> 0, mtimeEnd |-> 0, attempts |-> 0, setups |-> 0,
           outcomes |-> <<>>, targets |-> <<>>, cursors |-> <<>>, sinks |-> <<>>,
           reAdds |-> 0, hdr200 |-> 0,
           sameItem |-> FALSE, roundTrip |-> FALSE, mcError |-> FALSE,
           inFlight |-> FALSE, result |-> "none"]

Init ==
    /\ mirror_type \in MirrorTypes
    /\ srv = NULL
    /\ urlOk \in BOOLEAN
    /\ fetch_priv = NULL
    /\ cr_url = "NULL"
    /\ opens = 0
    /\ remoteMtime \in RemoteTimes
    /\ dnsQueries = 0
    /\ downgraded = FALSE
    /\ fi_mtime \in ItemTimes
    /\ pc = "idle"
    /\ retry = 0
    /\ retcode = "EPKG_OK"
    /\ still_running = 0
    /\ srv_current = NULL
    /\ data = NoData
    /\ target = Target("none", NULL)
    /\ timevalue = 0
    /\ attached = FALSE
    /\ xfer = "none"
    /\ msgq = <<>>
    /\ response_code = 0
    /\ hdrs = 0
    /\ nBegin = 0
    /\ nTick = 0
    /\ nError = 0
    /\ hist = NoHist
    /\ openHist = <<>>

\* ------------------------------------------------------------ curl_open

\* line 109 without the test of the mirror type
NeedsSrvLookup_AnyType(mt, s) == s = NULL

\* line 109: the session needs a SRV lookup
NeedsSrvLookup(mt, s) == mt = "SRV" /\ s = NULL

\* the last two consecutive curl_open calls
Remember(h, r) == IF h = <<>> THEN <<r>> ELSE <<h[Len(h)], r>>

\* the session as curl_open leaves it, with its result code
OpenRecord(rc) ==
    [rc |-> rc, fetch_priv |-> fetch_priv', mirror_type |-> mirror_type',
     srv |-> srv', cr_url |-> cr_url', dnsQueries |-> dnsQueries']

curl_open ==
    /\ pc = "idle"
    /\ opens < MaxOpens \/ fetch_priv # NULL
    /\ UNCHANGED <<urlOk, remoteMtime, fi_mtime, callVars, multiVars, eventVars, hist>>
    /\ IF fetch_priv # NULL
       THEN \* lines 99-100
            /\ UNCHANGED <<mirror_type, srv, fetch_priv, cr_url, opens, dnsQueries, downgraded>>
            /\ openHist' = Remember(openHist, OpenRecord("EPKG_OK"))
       ELSE /\ opens' = opens + 1
            /\ fetch_priv' = opens + 1
            /\ IF NeedsSrvLookup(mirror_type, srv)
               THEN IF ~urlOk
                    THEN \* lines 111-118
                         /\ cr_url' = "EMPTY"
                         /\ UNCHANGED <<mirror_type, srv, dnsQueries, downgraded>>
                         /\ openHist' = Remember(openHist, OpenRecord("EPKG_FATAL"))
                    ELSE \* lines 120-133
                         /\ cr_url' = "SET"
                         /\ dnsQueries' = dnsQueries + 1
                         /\ \E n \in 0..MaxMirrors :
                              /\ srv' = n
                              /\ mirror_type' = IF n = NULL THEN "NOMIRROR" ELSE mirror_type
                              /\ downgraded' = (downgraded \/ n = NULL)
                         /\ openHist' = Remember(openHist, OpenRecord("EPKG_OK"))
               ELSE /\ cr_url' = "NULL"
                    /\ UNCHANGED <<mirror_type, srv, dnsQueries, downgraded>>
                    /\ openHist' = Remember(openHist, OpenRecord("EPKG_OK"))

\* --------------------------------------------------------- curl_cleanup

\* line 264 left out
AfterCleanup_Kept(fp) == fp

\* line 264: repo->fetch_priv after the cleanup of an open session
AfterCleanup(fp) == NULL

curl_cleanup ==
    /\ pc = "idle"
    /\ UNCHANGED <<mirror_type, srv, urlOk, opens, dnsQueries, downgraded,
                   remoteMtime, fi_mtime, callVars, multiVars, eventVars, hist>>
    /\ openHist' = <<>>
    /\ IF fetch_priv = NULL
       THEN UNCHANGED <<fetch_priv, cr_url>>
       ELSE /\ fetch_priv' = AfterCleanup(fetch_priv)
            /\ cr_url' = "NULL"

\* ------------------------------------------------------------ the item

\* the caller passes another fetch_item
new_item ==
    /\ pc = "idle"
    /\ \E m \in ItemTimes :
         /\ m # fi_mtime
         /\ fi_mtime' = m
    /\ hist' = [hist EXCEPT !.sameItem = FALSE]
    /\ UNCHANGED <<repoVars, remoteMtime, callVars, multiVars, eventVars, openHist>>

\* ------------------------------------------------------- the callbacks

\* line 70 without the test of the started flag
MustEmitBegin_NoFlag(response, started) == response = HTTP_OK

\* line 70: the header callback emits fetch-begin
MustEmitBegin(response, started) == response = HTTP_OK /\ ~started

\* curl_parseheader_cb with CURLINFO_RESPONSE_CODE = code
curl_parseheader_cb(d, code) ==
    [d EXCEPT !.response = code,
              !.started = IF MustEmitBegin(code, d.started) THEN TRUE ELSE d.started]

\* fetch-begin events curl_parseheader_cb emits
BeginsEmitted(d, code) == IF MustEmitBegin(code, d.started) THEN 1 ELSE 0

\* curl_progress_cb without the test of line 86
curl_progress_cb_Always(d) == 1

\* progress-tick events curl_progress_cb emits
curl_progress_cb(d) == IF d.response # HTTP_OK THEN 0 ELSE 1

\* curl_write_cb when fwrite writes the whole chunk
curl_write_cb(d) == [d EXCEPT !.size = d.size + 1]

\* ----------------------------------------------------------- curl_fetch

\* lines 153-172: the call up to the retry label
curl_fetch ==
    /\ pc = "idle"
    /\ fetch_priv # NULL
    /\ openHist' = <<>>
    /\ UNCHANGED <<repoVars, remoteMtime, fi_mtime>>
    /\ \E n \in 0..MaxRetry, fhOk \in BOOLEAN :
         IF ~fhOk
         THEN \* lines 156-157
              /\ hist' = [NoHist EXCEPT !.mtime0 = fi_mtime, !.mtimeEnd = fi_mtime,
                                        !.sameItem = TRUE, !.result = "EPKG_FATAL"]
              /\ nBegin' = 0 /\ nTick' = 0 /\ nError' = 0
              /\ UNCHANGED <<callVars, multiVars>>
         ELSE /\ data' = [fh |-> "open", started |-> FALSE, response |-> 0, size |-> 0]
              /\ retry' = n
              /\ retcode' = "EPKG_OK"
              /\ still_running' = 1
              /\ srv_current' = NULL
              /\ target' = Target("none", NULL)
              /\ timevalue' = 0
              /\ response_code' = 0
              /\ hdrs' = 0
              /\ pc' = "setup"
              /\ nBegin' = 0 /\ nTick' = 0 /\ nError' = 0
              /\ hist' = [NoHist EXCEPT !.ceiling = n, !.mtime0 = fi_mtime,
                                        !.roundTrip =
                                            /\ hist.result = "EPKG_OK"
                                            /\ hist.sameItem
                                            /\ ~hist.mcError
                                            /\ hist.outcomes =
                                                 <<[rc |-> HTTP_OK, result |-> "CURLE_OK"]>>]
              /\ UNCHANGED <<attached, xfer, msgq>>

\* struct dns_srvinfo: the first record of the list repo->srv
SrvHead(s) == IF s = NULL THEN NULL ELSE 1

\* struct dns_srvinfo: the record after record i in a list of s records
SrvNext(i, s) == IF i < s THEN i + 1 ELSE NULL

\* lines 177-180: the record the cursor moves to
NextSrv(cur, s) == IF cur = NULL THEN SrvHead(s) ELSE SrvNext(cur, s)

\* line 212: curl_multi_add_handle starts a transfer unless the handle is attached
AddStarts(isAttached) == ~isAttached

\* lines 177-180 moving the list head repo->srv instead of the cursor
SrvAfterSetup_Advance(s, cur) == IF cur = NULL THEN s ELSE cur

\* lines 177-180: repo->srv after the cursor has moved to record cur
SrvAfterSetup(s, cur) == s

\* lines 174-212: the request setup at the retry label, up to the test of line 214
curl_fetch_retry ==
    /\ pc = "setup"
    /\ UNCHANGED <<mirror_type, urlOk, fetch_priv, cr_url, opens, dnsQueries, downgraded,
                   remoteMtime, fi_mtime, eventVars, openHist,
                   retry, retcode, still_running, data, msgq, response_code, hdrs>>
    /\ srv' = IF mirror_type = "SRV"
              THEN SrvAfterSetup(srv, NextSrv(srv_current, srv))
              ELSE srv
    /\ \E ub \in {"crash", "garbage"} :
         LET nxt == NextSrv(srv_current, srv)
             deref == mirror_type = "SRV" /\ nxt = NULL
             tgt == IF mirror_type = "SRV"
                    THEN IF nxt = NULL THEN Target("garbage", NULL)
                         ELSE IF cr_url = "NULL" THEN Target("none", NULL)
                         ELSE Target("mirror", nxt)
                    ELSE IF mirror_type = "HTTP" THEN target
                    ELSE Target("url", NULL)
         IN  /\ ub = "crash" => deref
             /\ srv_current' = IF mirror_type = "SRV" THEN nxt ELSE srv_current
             /\ IF deref /\ ub = "crash"
                THEN \* line 181 reads through a null srv_current
                     /\ pc' = "crashed"
                     /\ hist' = [hist EXCEPT !.setups = @ + 1,
                                             !.targets = Append(@, Target("null", NULL)),
                                             !.sinks = Append(@, data.fh),
                                             !.cursors = Append(@, nxt)]
                     /\ UNCHANGED <<target, timevalue, attached, xfer>>
                ELSE /\ target' = tgt
                     /\ timevalue' = fi_mtime
                     /\ attached' = TRUE
                     /\ xfer' = IF AddStarts(attached) THEN "running" ELSE xfer
                     /\ hist' = [hist EXCEPT !.setups = @ + 1,
                                             !.targets = Append(@, tgt),
                                             !.sinks = Append(@, data.fh),
                                             !.reAdds =
                                                 IF AddStarts(attached) THEN @ ELSE @ + 1,
                                             !.cursors =
                                                 IF mirror_type = "SRV" THEN Append(@, nxt) ELSE @,
                                             !.attempts =
                                                 IF AddStarts(attached) THEN @ + 1 ELSE @]
                     /\ pc' = IF still_running # 0 THEN "poll" ELSE "msgs"

\* ------------------------------------------- the transfer (inside line 215)

\* the status the server answers a conditional GET with
Answers(code) ==
    /\ code = HTTP_NOT_MODIFIED => timevalue >= remoteMtime
    /\ code = HTTP_OK => timevalue < remoteMtime

Transferring == pc = "poll" /\ xfer = "running"

\* a header line of a response with status code arrives
transfer_header ==
    /\ Transferring
    /\ target.kind # "none"
    /\ hdrs < MaxHeaders
    /\ \E code \in Codes :
         /\ IF response_code \in FinalCodes THEN code = response_code ELSE Answers(code)
         /\ response_code' = code
         /\ data' = curl_parseheader_cb(data, code)
         /\ nBegin' = nBegin + BeginsEmitted(data, code)
         /\ hist' = [hist EXCEPT !.hdr200 = IF code = HTTP_OK THEN @ + 1 ELSE @]
    /\ hdrs' = hdrs + 1
    /\ UNCHANGED <<repoVars, remoteMtime, fi_mtime, openHist, nTick, nError,
                   pc, retry, retcode, still_running, srv_current, target, timevalue,
                   attached, xfer, msgq>>

\* the transport reports progress
transfer_progress ==
    /\ Transferring
    /\ nTick < MaxTicks
    /\ nTick' = nTick + curl_progress_cb(data)
    /\ UNCHANGED <<repoVars, remoteMtime, fi_mtime, openHist, hist, nBegin, nError,
                   callVars, multiVars>>

\* the transfer ends with result r: the completion message is queued and
\* curl_multi_perform reports no running transfer, which ends the loop of line 214
Completed(r) ==
    /\ xfer' = "done"
    /\ msgq' = Append(msgq, [msg |-> "CURLMSG_DONE", result |-> r])
    /\ still_running' = 0
    /\ pc' = "msgs"
    /\ hist' = [hist EXCEPT !.outcomes = Append(@, [rc |-> response_code, result |-> r])]

\* a chunk of the body arrives
transfer_body ==
    /\ Transferring
    /\ response_code \in FinalCodes \ {HTTP_NOT_MODIFIED}
    /\ \E written \in BOOLEAN :
         IF data.fh # "open"
         THEN \* fwrite on a closed FILE
              /\ pc' = "crashed"
              /\ UNCHANGED <<data, xfer, msgq, still_running, hist>>
         ELSE IF written
         THEN /\ data.size < MaxChunks
              /\ data' = curl_write_cb(data)
              /\ UNCHANGED <<pc, xfer, msgq, still_running, hist>>
         ELSE \* a short write makes libcurl abort the transfer
              /\ Completed("CURLE_WRITE_ERROR")
              /\ UNCHANGED data
    /\ UNCHANGED <<repoVars, remoteMtime, fi_mtime, openHist, eventVars,
                   retry, retcode, srv_current, target, timevalue,
                   attached, response_code, hdrs>>

\* the transfer ends
transfer_done ==
    /\ Transferring
    /\ \E r \in {"CURLE_OK", "CURLE_FAILED", "CURLE_URL_MALFORMAT"} :
         /\ r = "CURLE_URL_MALFORMAT" <=> target.kind = "none"
         /\ r = "CURLE_OK" => response_code # 0
         /\ Completed(r)
    /\ UNCHANGED <<repoVars, remoteMtime, fi_mtime, openHist, eventVars,
                   retry, retcode, srv_current, data, target, timevalue,
                   attached, response_code, hdrs>>

\* lines 221-222: curl_multi_perform or curl_multi_poll fails
multi_error ==
    /\ Transferring
    /\ pc' = "msgs"
    /\ hist' = [hist EXCEPT !.mcError = TRUE]
    /\ UNCHANGED <<repoVars, remoteMtime, fi_mtime, openHist, eventVars,
                   retry, retcode, still_running, srv_current, data, target, timevalue,
                   multiVars>>

\* ------------------------------------------------- the completion messages

\* line 234: the failure ends the call
GivesUp(left, rc) == left <= 0 \/ rc = HTTP_NOT_FOUND

\* line 239: the failure goes back to the retry label
GoesToRetry(left, rc) == TRUE

\* lines 224-244: one completion message
curl_fetch_msg ==
    /\ pc = "msgs"
    /\ msgq # <<>>
    /\ msgq' = Tail(msgq)
    /\ UNCHANGED <<repoVars, remoteMtime, fi_mtime, openHist, nBegin, nTick,
                   still_running, srv_current, target, timevalue,
                   attached, xfer, response_code, hdrs, hist>>
    /\ \E ub \in {"crash", "goes on"} :
         /\ ub = "crash" => data.fh # "open"
         /\ IF ub = "crash"
            THEN \* line 225 closes a FILE that is closed already
                 /\ pc' = "crashed"
                 /\ UNCHANGED <<data, retry, retcode, nError>>
            ELSE /\ data' = [data EXCEPT !.fh = "closed"]
                 /\ LET msg == Head(msgq)
                        rc == response_code
                    IN  IF msg.msg # "CURLMSG_DONE"
                        THEN /\ nError' = nError + 1
                             /\ UNCHANGED <<pc, retry, retcode>>
                        ELSE IF rc = HTTP_NOT_MODIFIED
                        THEN /\ retcode' = "EPKG_UPTODATE"
                             /\ UNCHANGED <<pc, retry, nError>>
                        ELSE IF rc # HTTP_OK
                        THEN /\ retry' = retry - 1
                             /\ IF GivesUp(retry - 1, rc)
                                THEN /\ nError' = nError + 1
                                     /\ retcode' = "EPKG_FATAL"
                                ELSE UNCHANGED <<nError, retcode>>
                             /\ pc' = IF GoesToRetry(retry - 1, rc) THEN "setup" ELSE pc
                        ELSE UNCHANGED <<pc, retry, retcode, nError>>

\* lines 191-211: the options curl_fetch sets on the easy handle
EasyOptions ==
    {"CURLOPT_CURLU", "CURLOPT_URL", "CURLOPT_FOLLOWLOCATION", "CURLOPT_WRITEFUNCTION",
     "CURLOPT_WRITEDATA", "CURLOPT_NOPROGRESS", "CURLOPT_PRIVATE",
     "CURLOPT_XFERINFOFUNCTION", "CURLOPT_XFERINFODATA", "CURLOPT_TIMEVALUE",
     "CURLOPT_TIMECONDITION", "CURLOPT_HEADERFUNCTION", "CURLOPT_HEADERDATA",
     "CURLOPT_TIMEOUT", "CURLOPT_VERBOSE", "CURLOPT_SSL_VERIFYPEER",
     "CURLOPT_SSL_VERIFYHOST"}

\* line 246: CURLINFO_FILETIME_T, the remote time when libcurl was asked to collect it
FileTime(options, rc, remote) ==
    IF "CURLOPT_FILETIME" \in options /\ rc \in {HTTP_OK, HTTP_NOT_MODIFIED}
    THEN remote
    ELSE FILETIME_UNKNOWN

\* line 246: the modification time the call leaves in the item
MtimeOnReturn(old, rcode, filetime) == filetime

\* lines 246-250: no message is left, the call returns
curl_fetch_return ==
    /\ pc = "msgs"
    /\ msgq = <<>>
    /\ fi_mtime' = MtimeOnReturn(fi_mtime, retcode,
                                 FileTime(EasyOptions, response_code, remoteMtime))
    /\ attached' = FALSE
    /\ xfer' = "none"
    /\ pc' = "idle"
    /\ hist' = [hist EXCEPT !.result = retcode, !.sameItem = TRUE,
                            !.mtimeEnd = fi_mtime',
                            !.inFlight = (xfer = "running")]
    \* the locals and the easy handle (line 248) are gone
    /\ retry' = 0
    /\ retcode' = "EPKG_OK"
    /\ still_running' = 0
    /\ srv_current' = NULL
    /\ data' = NoData
    /\ target' = Target("none", NULL)
    /\ timevalue' = 0
    /\ response_code' = 0
    /\ hdrs' = 0
    /\ UNCHANGED <<repoVars, remoteMtime, openHist, eventVars, msgq>>

Next ==
    \/ curl_open
    \/ curl_cleanup
    \/ new_item
    \/ curl_fetch
    \/ curl_fetch_retry
    \/ transfer_header
    \/ transfer_progress
    \/ transfer_body
    \/ transfer_done
    \/ multi_error
    \/ curl_fetch_msg
    \/ curl_fetch_return

Spec == Init /\ [][Next]_vars

\* ------------------------------------------------------------ properties

\* the last curl_fetch call has returned
Returned == pc = "idle" /\ hist.result # "none"

\* a finished transfer that is a transient failure: no response at all (code 0)
\* or a status other than 200, 304 and 404
Transient(o) == o.rc \notin {HTTP_OK, HTTP_NOT_MODIFIED, HTTP_NOT_FOUND}

\* the finished transfers of the call that are transient failures
Failures == {i \in DOMAIN hist.outcomes : Transient(hist.outcomes[i])}

\* C1: a call in which every transport attempt ends in a transient failure
\* returns Fatal after exactly FETCH_RETRY + 1 transport attempts.
C1_FatalAfterExactlyNPlusOne ==
    (/\ Returned
     /\ ~hist.mcError
     /\ hist.attempts >= 1
     /\ Len(hist.outcomes) = hist.attempts
     /\ Failures = DOMAIN hist.outcomes)
    => /\ hist.result = "EPKG_FATAL"
       /\ hist.attempts = hist.ceiling + 1

\* C2: a call that sees k transient failures, k below the retry ceiling, and
\* whose next request the server answers with 200 performs a further transport
\* attempt after each failure, returns Ok and leaves the modification time of
\* the 200 response in the item.
C2_RetriesUntilOk ==
    (/\ Returned
     /\ ~hist.mcError
     /\ hist.mtime0 < remoteMtime
     /\ Failures # {}
     /\ Cardinality(Failures) < hist.ceiling
     /\ \A i \in DOMAIN hist.outcomes \ Failures :
            /\ i = Len(hist.outcomes)
            /\ hist.outcomes[i] = [rc |-> HTTP_OK, result |-> "CURLE_OK"])
    => /\ hist.attempts = Cardinality(Failures) + 1
       /\ Len(hist.outcomes) = hist.attempts
       /\ hist.outcomes[hist.attempts].rc = HTTP_OK
       /\ hist.result = "EPKG_OK"
       /\ hist.mtimeEnd = remoteMtime

\* C3: once the first attempt of a call has ended with status 404, the call
\* runs no further request setup, mirror advance or transport attempt, and it
\* returns Fatal.
C3_NotFoundStopsAtOnce ==
    (/\ hist.outcomes # <<>>
     /\ hist.outcomes[1] = [rc |-> HTTP_NOT_FOUND, result |-> "CURLE_OK"])
    => /\ hist.setups = 1
       /\ hist.attempts = 1
       /\ Len(hist.cursors) <= 1
       /\ pc # "crashed"
       /\ Returned => hist.result = "EPKG_FATAL"

\* C4: a call whose response is 304 returns UpToDate, emits neither
\* fetch-begin nor progress-tick, and leaves fi->mtime as it was at the start.
C4_NotModifiedLeavesItem ==
    (/\ Returned
     /\ hist.outcomes # <<>>
     /\ hist.outcomes[1] = [rc |-> HTTP_NOT_MODIFIED, result |-> "CURLE_OK"])
    => /\ hist.result = "EPKG_UPTODATE"
       /\ nBegin = 0
       /\ nTick = 0
       /\ hist.mtimeEnd = hist.mtime0

\* C5: within one call fetch-begin is emitted at most once, only after a
\* status of 200 was observed, and exactly once when a 200 was observed,
\* however often the header callback runs.
C5_BeginOnceAfterOk ==
    /\ nBegin <= 1
    /\ nBegin = 1 <=> hist.hdr200 >= 1

\* C5 witness: the header callback ran more than once on a 200 response
C5_Witness == hist.hdr200 >= 2 /\ nBegin = 1 /\ Returned

\* C6: once curl_open found no SRV record the mirror type is NOMIRROR and
\* stays so, and dns_getsrvinfo is not called again, whatever is called next.
C6_DowngradeIsPermanent ==
    [][/\ downgraded' => mirror_type' = "NOMIRROR"
       /\ downgraded => (downgraded' /\ dnsQueries' = dnsQueries)]_vars

\* C6 witness: a downgraded session was closed, opened again and fetched from
C6_Witness ==
    /\ downgraded
    /\ opens >= 2
    /\ fetch_priv # NULL
    /\ Returned
    /\ hist.attempts >= 1

\* C7: in a SRV session with n resolved records the i-th attempt of a call
\* (from 0) has its cursor on record (i mod n): the cursor wraps and is valid.
C7_RoundRobinWraps ==
    (mirror_type = "SRV" /\ srv # NULL)
    => \A i \in DOMAIN hist.cursors : hist.cursors[i] = ((i - 1) % srv) + 1

\* C8: the call after a call that returned Ok, given the item as that call left
\* it and answered by the server according to the time condition, returns
\* UpToDate.
C8_RoundTripUpToDate ==
    (/\ Returned
     /\ hist.roundTrip
     /\ ~hist.mcError
     /\ Len(hist.outcomes) = 1
     /\ hist.outcomes[1].result = "CURLE_OK"
     /\ hist.outcomes[1].rc \in {HTTP_OK, HTTP_NOT_MODIFIED})
    => hist.result = "EPKG_UPTODATE"

\* C9: the second of two consecutive curl_open calls returns the code of the
\* first, leaves the session as the first left it, and resolves nothing.
C9_OpenIdempotent ==
    Len(openHist) = 2 => openHist[1] = openHist[2]

\* C10: on a session whose SRV list (if it is a SRV session) is resolved, a
\* call whose attempts complete never ends other than by returning Ok,
\* UpToDate or Fatal, and returns with no transfer in flight.
C10_AlwaysReturnsACode ==
    (mirror_type = "SRV" => srv # NULL)
    => /\ pc # "crashed"
       /\ (Returned /\ ~hist.mcError) => (hist.result \in Results /\ ~hist.inFlight)

\* an attempt that failed: its transfer ended with a status other than 200
\* and 304 (0: no response at all)
Failed(o) == o.rc \notin {HTTP_OK, HTTP_NOT_MODIFIED}

\* C11: a call emits one error diagnostic for every failed attempt it
\* classifies, also for those followed by a retry: k failed attempts, k errors.
C11_OneErrorPerFailure ==
    (Returned /\ ~hist.mcError /\ hist.attempts >= 1)
    => nError = Cardinality({i \in DOMAIN hist.outcomes : Failed(hist.outcomes[i])})

\* C12: curl_cleanup of a session without transport handle changes nothing;
\* curl_cleanup of an open session leaves it without transport handle; the
\* curl_open that follows gives it a handle that was never handed out before.
C12_CleanupThenFreshOpen ==
    [][/\ (curl_cleanup /\ fetch_priv = NULL)
            => UNCHANGED <<repoVars, remoteMtime, fi_mtime, callVars, multiVars, eventVars>>
       /\ (curl_cleanup /\ fetch_priv # NULL) => fetch_priv' = NULL
       /\ (curl_open /\ fetch_priv = NULL) => (fetch_priv' # NULL /\ fetch_priv' > opens)]_vars

\* C12 witness: the session was cleaned up and opened again
C12_Witness == opens >= 2 /\ fetch_priv = opens /\ pc = "idle"

\* C13: a call returns Ok only if its last transfer completed without
\* transport error and with status 200 (a failed write to the sink apart,
\* which is C15).
C13_OkOnlyAfter200 ==
    (/\ Returned
     /\ ~hist.mcError
     /\ hist.outcomes # <<>>
     /\ hist.outcomes[Len(hist.outcomes)].result # "CURLE_WRITE_ERROR"
     /\ hist.result = "EPKG_OK")
    => hist.outcomes[Len(hist.outcomes)] = [rc |-> HTTP_OK, result |-> "CURLE_OK"]

\* C14: every request setup of a call, the first and each retry, has a freshly
\* opened (not yet closed) duplicate of the destination as its sink.
C14_FreshSinkPerAttempt ==
    \A i \in DOMAIN hist.sinks : hist.sinks[i] = "open"

\* C15: an attempt in which the write callback could not write a whole chunk
\* counts as failed: the call does not return Ok after it, whatever the status.
C15_ShortWriteIsFailure ==
    (/\ Returned
     /\ hist.outcomes # <<>>
     /\ hist.outcomes[Len(hist.outcomes)].result = "CURLE_WRITE_ERROR")
    => hist.result # "EPKG_OK"

\* C16: a progress-tick is emitted only after the fetch-begin of the call and
\* only while the last observed status is 200, and neither a begin nor a tick
\* is emitted once the call has returned.
C16_BeginTicksThenReturn ==
    [][/\ nTick' > nTick => (nBegin >= 1 /\ data.response = HTTP_OK)
       /\ pc = "idle" => (nBegin' <= nBegin /\ nTick' <= nTick)]_vars

\* C16 witness: a call that emitted begin and a tick has returned
C16_Witness == nTick >= 1 /\ nBegin = 1 /\ Returned /\ hist.result = "EPKG_OK"

\* C17: a call that returns Fatal leaves fi->mtime as it was when it started.
C17_FatalKeepsMtime ==
    (Returned /\ hist.result = "EPKG_FATAL") => hist.mtimeEnd = hist.mtime0

\* C18: in a HTTP (static list) session every attempt has a defined target;
\* the list being empty, it is fi->url as in a NOMIRROR session.
C18_StaticListHasTarget ==
    mirror_type = "HTTP"
    => \A i \in DOMAIN hist.targets : hist.targets[i] = Target("url", NULL)

\* C19: no step of curl_fetch changes repo->mirror_type or repo->srv; only
\* curl_open does.
C19_FetchKeepsMirrors ==
    [][(mirror_type' # mirror_type \/ srv' # srv) => curl_open]_vars

\* C19 witness: a call on a SRV session with several records went through the
\* retry label and returned
C19_Witness ==
    /\ Returned
    /\ mirror_type = "SRV"
    /\ srv >= 2
    /\ hist.cursors = <<1, 2>>

\* C20: within a call curl_multi_add_handle is not called on the easy handle
\* while it is attached, and a call that has returned leaves it detached.
C20_HandleBalance ==
    /\ hist.reAdds = 0
    /\ pc = "idle" => ~attached
====
